---- MODULE Spec2Model ----
(***************************************************************************)
(* Model of calculate_balances (src/app.py, lines 172-303): the            *)
(* reconciliation of dated credits (sales) against debits (payments), the  *)
(* on-time and the late allocation pass, the accrual of interest and the   *)
(* totals.                                                                  *)
(*                                                                          *)
(* Representation.                                                          *)
(*  - A datetime is a record [kind, t]: kind is "naive" or "aware" (with a *)
(*    tzinfo), t the minutes since midnight of day 0, for an aware         *)
(*    datetime on the clock of Asia/Kolkata.  None is the record of kind   *)
(*    "none".  Where a naive and an aware datetime meet in a subtraction   *)
(*    or an ordering comparison Python raises TypeError, and localize of   *)
(*    an aware datetime raises ValueError; either ends the run (pc =       *)
(*    "TypeError", pc = "ValueError").                                      *)
(*  - An amount is a float of Python, as float() of lines 157-158 gives    *)
(*    it: a record [s, m, e] of value (-1)^s * m * 2^e with a mantissa m   *)
(*    of 53 binary digits.  Sums, differences and products are rounded to  *)
(*    the nearest float, as the processor does; 0.05 - 0.02 - 0.03 is      *)
(*    2^-58 and not 0.  The amounts of the rows are the floats nearest to  *)
(*    a number of hundredths.  The int 0 with which the code starts its    *)
(*    totals behaves in every operation of the code as the float 0.0.      *)
(*  - An argument of parse_date_to_datetime is a record [form, value]:   *)
(*    form "datetime" for a datetime, "serial" for a number, "date" for a  *)
(*    text that one of the formats of line 85 matches, "timestamp" for the *)
(*    str() of a datetime, "other" for a text nothing reads.  The rows     *)
(*    carry the datetimes that it returned (lines 151-152, 161, 164).      *)
(*  - 'original_date' of a debit and of a credit, a display string, is     *)
(*    modelled by the index of the entry in the sorted list (field "debit" *)
(*    of an allocation).                                                    *)
(***************************************************************************)
EXTENDS Integers, Sequences, FiniteSets

\* ----------------------------------------------------------------- bounds
\* the rows of a well-formed ledger, of a list of any rows, and of a ledger
\* with amounts at the principal threshold
MaxRows == 3
MaxToleratedRows == 2
MaxCapRows == 2
MaxDay == 1
\* the largest amount of a row, in hundredths
MaxAmount == 3

\* ------------------------------------------------------ program constants
\* minutes in the day that timedelta.days counts (line 101)
MinutesPerDay == 1440
\* hour=16, minute=28 of line 179, in minutes
TargetMinute == 988
\* a time of day of an input datetime later than that of the target: 18:00
Evening == 1080

Max(a, b) == IF a >= b THEN a ELSE b

\* F(v) for v the value of x, which is worked out once
With(x, F(_)) == CHOOSE r \in {F(v) : v \in {x}} : TRUE

\* ------------------------------------------------- natural numbers, any size
\* A natural number is the sequence of its digits in base Base, the lowest
\* first, without a zero as its last digit; <<>> is 0.
Base == 16384
BaseBits == 14

RECURSIVE Trim(_)
Trim(a) ==
    IF a = <<>> THEN <<>>
    ELSE IF a[Len(a)] = 0 THEN Trim(SubSeq(a, 1, Len(a) - 1))
    ELSE a

RECURSIVE NatOf(_)
\* the digits of an integer n >= 0
NatOf(n) == IF n = 0 THEN <<>> ELSE <<n % Base>> \o NatOf(n \div Base)

RECURSIVE AddCarry(_, _, _)
AddCarry(a, b, c) ==
    IF a = <<>> /\ b = <<>> THEN (IF c = 0 THEN <<>> ELSE <<c>>)
    ELSE LET x == (IF a = <<>> THEN 0 ELSE Head(a))
                  + (IF b = <<>> THEN 0 ELSE Head(b)) + c
         IN <<x % Base>>
            \o AddCarry(IF a = <<>> THEN <<>> ELSE Tail(a),
                        IF b = <<>> THEN <<>> ELSE Tail(b), x \div Base)

AddN(a, b) == AddCarry(a, b, 0)

RECURSIVE SubBorrow(_, _, _)
SubBorrow(a, b, c) ==
    IF a = <<>> THEN <<>>
    ELSE LET x == Head(a) - (IF b = <<>> THEN 0 ELSE Head(b)) - c
         IN <<x % Base>>
            \o SubBorrow(Tail(a), IF b = <<>> THEN <<>> ELSE Tail(b),
                         IF x < 0 THEN 1 ELSE 0)

\* a - b, for a >= b
SubN(a, b) == Trim(SubBorrow(a, b, 0))

RECURSIVE CmpFromTop(_, _, _)
CmpFromTop(a, b, i) ==
    IF i = 0 THEN 0
    ELSE IF a[i] # b[i] THEN (IF a[i] < b[i] THEN -1 ELSE 1)
    ELSE CmpFromTop(a, b, i - 1)

\* -1, 0 or 1 as a is below, equal to or above b
CmpN(a, b) ==
    IF Len(a) # Len(b) THEN (IF Len(a) < Len(b) THEN -1 ELSE 1)
    ELSE CmpFromTop(a, b, Len(a))

RECURSIVE MulDigit(_, _, _)
\* a * k + c, for a digit-sized k
MulDigit(a, k, c) ==
    IF a = <<>> THEN NatOf(c)
    ELSE LET x == Head(a) * k + c
         IN <<x % Base>> \o MulDigit(Tail(a), k, x \div Base)

RECURSIVE MulN(_, _)
MulN(a, b) ==
    IF a = <<>> \/ b = <<>> THEN <<>>
    ELSE AddN(MulDigit(a, Head(b), 0),
              LET rest == MulN(a, Tail(b))
              IN IF rest = <<>> THEN <<>> ELSE <<0>> \o rest)

RECURSIVE DivDigitFrom(_, _, _, _)
\* the digits of a \div k below position i, the remainder r carried down
DivDigitFrom(a, k, i, r) ==
    IF i = 0 THEN <<>>
    ELSE LET x == r * Base + a[i]
         IN DivDigitFrom(a, k, i - 1, x % k) \o <<x \div k>>

RECURSIVE ModDigitFrom(_, _, _, _)
ModDigitFrom(a, k, i, r) ==
    IF i = 0 THEN r ELSE ModDigitFrom(a, k, i - 1, (r * Base + a[i]) % k)

\* a \div k and a % k, for a digit-sized k
DivDigit(a, k) == Trim(DivDigitFrom(a, k, Len(a), 0))
ModDigit(a, k) == ModDigitFrom(a, k, Len(a), 0)

\* a * 2^n
ShiftLeft(a, n) ==
    IF a = <<>> THEN <<>>
    ELSE [i \in 1..(n \div BaseBits) |-> 0]
             \o MulDigit(a, 2 ^ (n % BaseBits), 0)

\* a \div 2^n
ShiftRight(a, n) ==
    IF n \div BaseBits >= Len(a) THEN <<>>
    ELSE DivDigit(SubSeq(a, n \div BaseBits + 1, Len(a)), 2 ^ (n % BaseBits))

\* the number of binary digits of a
BitLength(a) ==
    IF a = <<>> THEN 0
    ELSE (Len(a) - 1) * BaseBits
         + (CHOOSE n \in 1..BaseBits :
                2 ^ (n - 1) <= a[Len(a)] /\ a[Len(a)] < 2 ^ n)

\* ------------------------------------------------------------------ floats
\* A float of Python (IEEE 754 binary64) is [s, m, e] of value
\* (-1)^s * m * 2^e: m has Precision binary digits, or is 0 with s = 0 and
\* e = 0.  The amounts of a ledger are far from the subnormal and from the
\* infinite range.
Precision == 53

Zero == [s |-> 0, m |-> <<>>, e |-> 0]

\* m \div 2^k (k > 0) to the nearest, a tie going to the even quotient
DivRound(m, k) ==
    With(ShiftRight(m, k), LAMBDA q :
        With(CmpN(ShiftLeft(SubN(m, ShiftLeft(q, k)), 1), ShiftLeft(<<1>>, k)),
             LAMBDA half :
                IF half > 0 \/ (half = 0 /\ q[1] % 2 = 1)
                THEN AddN(q, <<1>>) ELSE q))

\* The float nearest to (-1)^s * m * 2^e, a tie going to the even m.
RoundTo(s, m, e, k) ==
    IF k <= 0 THEN [s |-> s, m |-> ShiftLeft(m, -k), e |-> e + k]
    ELSE With(DivRound(m, k), LAMBDA r :
            IF BitLength(r) > Precision
            THEN [s |-> s, m |-> ShiftRight(r, 1), e |-> e + k + 1]
            ELSE [s |-> s, m |-> r, e |-> e + k])

Round(x) ==
    With(x, LAMBDA v :
        IF v.m = <<>> THEN Zero
        ELSE With(BitLength(v.m) - Precision,
                  LAMBDA k : RoundTo(v.s, v.m, v.e, k)))

\* a - b with the sign s when a >= b, b - a with the opposite sign otherwise
Difference(s, a, b, e) ==
    With(CmpN(a, b), LAMBDA c :
        IF c = 0 THEN Zero
        ELSE IF c > 0 THEN [s |-> s, m |-> SubN(a, b), e |-> e]
        ELSE [s |-> 1 - s, m |-> SubN(b, a), e |-> e])

Aligned(x, y, e) ==
    With(ShiftLeft(x.m, x.e - e), LAMBDA a :
        With(ShiftLeft(y.m, y.e - e), LAMBDA b :
            IF x.s = y.s THEN [s |-> x.s, m |-> AddN(a, b), e |-> e]
            ELSE Difference(x.s, a, b, e)))

\* x + y of two numbers [s, m, e], m of any size, with no rounding
ExactAdd(x, y) ==
    With(x, LAMBDA u :
        With(y, LAMBDA v :
            IF u.m = <<>> THEN v
            ELSE IF v.m = <<>> THEN u
            ELSE Aligned(u, v, IF u.e <= v.e THEN u.e ELSE v.e)))

Negate(x) ==
    With(x, LAMBDA v : IF v.m = <<>> THEN v ELSE [v EXCEPT !.s = 1 - v.s])

\* -1, 0 or 1 as x is below, equal to or above y
Compare(x, y) ==
    With(ExactAdd(x, Negate(y)), LAMBDA d :
        IF d.m = <<>> THEN 0 ELSE IF d.s = 1 THEN -1 ELSE 1)

\* the operators of Python on floats
FAdd(x, y) == Round(ExactAdd(x, y))
FSub(x, y) == Round(ExactAdd(x, Negate(y)))
FMul(x, y) ==
    With(x, LAMBDA u :
        With(y, LAMBDA v :
            IF u.m = <<>> \/ v.m = <<>> THEN Zero
            ELSE Round([s |-> (u.s + v.s) % 2, m |-> MulN(u.m, v.m),
                        e |-> u.e + v.e])))
FLess(x, y) == Compare(x, y) < 0
FLessEq(x, y) == Compare(x, y) <= 0
FMin(x, y) ==
    With(x, LAMBDA u : With(y, LAMBDA v : IF FLess(v, u) THEN v ELSE u))

\* float(n) of an integer n >= 0
FloatOfInt(n) == Round([s |-> 0, m |-> NatOf(n), e |-> 0])

\* The float that the decimal n / 100 denotes, n >= 0: the quotient is taken
\* to GuardBits binary places, and a digit that stands for the remainder
\* keeps the rounding on the right side.
GuardBits == 70
FloatOfHundredths(n) ==
    With(ShiftLeft(NatOf(n), GuardBits), LAMBDA scaled :
        Round([s |-> 0,
               m |-> AddN(ShiftLeft(DivDigit(scaled, 100), 1),
                          IF ModDigit(scaled, 100) = 0 THEN <<>> ELSE <<1>>),
               e |-> -(GuardBits + 1)]))

\* x > 0 and x <= 0 as the code tests them
Positive(x) == FLess(Zero, x)
NotPositive(x) == FLessEq(x, Zero)

\* the literals 0.18 of lines 215 and 300 and 83171.71 of lines 287-288
DailyRate == FloatOfHundredths(18)
GstRate == FloatOfHundredths(18)
PrincipalCap == FloatOfHundredths(8317171)

\* ------------------------------------------------------------- datetimes
None == [kind |-> "none", t |-> 0]
Naive(day, minute) == [kind |-> "naive", t |-> day * MinutesPerDay + minute]
Aware(day, minute) == [kind |-> "aware", t |-> day * MinutesPerDay + minute]

Days == 0..MaxDay
\* The datetimes of the rows: at midnight, as every date text and every
\* serial number is read (lines 83, 87), naive or aware; and with a time of
\* day, as a datetime given as such comes (line 81).
MidnightNaive == {Naive(d, 0) : d \in Days}
MidnightAware == {Aware(d, 0) : d \in Days}
DateTimes ==
    {Naive(d, m) : d \in Days, m \in {0, Evening}}
    \cup {Aware(d, m) : d \in Days, m \in {0, Evening}}

\* str(due_date_val) of line 166 for a datetime, and a text nothing reads
Str(dt) == [form |-> "timestamp", value |-> dt]
DateText(dt) == [form |-> "date", value |-> dt]
Unreadable == [form |-> "other", value |-> None]

\* float(debit_val), float(credit_val) of lines 157-158, of the cells 0.00,
\* 0.01, ... up to MaxAmount hundredths
Amounts == {FloatOfHundredths(n) : n \in 0..MaxAmount}

\* A canonical transaction: the dict appended at lines 160-167, of the
\* given dates, due dates and amounts; the text of the due date is the str()
\* of the datetime.  Any row is tolerated: both amounts positive, both zero,
\* a due date before the date.
RowsOf(dates, dues, amounts) ==
    {[Date |-> d, Due_Date |-> u, Debit |-> a, Credit |-> c,
      Original_Due_Date_Str |-> Str(u)] :
        d \in dates, u \in dues, a \in amounts, c \in amounts}

\* Of a set of rows, those of a well-formed ledger: at most one of the two
\* amounts is not zero.  The due date of a row without credit is never read
\* (lines 190-206) and is taken to be its date.
WellFormed(rows) ==
    {r \in rows : /\ r.Debit = Zero \/ r.Credit = Zero
                  /\ r.Credit = Zero => r.Due_Date = r.Date}

\* Every row: any datetime, each amount absent or the largest.
Rows == RowsOf(DateTimes, DateTimes, {Zero, FloatOfHundredths(MaxAmount)})

\* The rows of a well-formed ledger read from date texts (naive, midnight)
\* whose due dates are date texts or tz-aware datetimes.
LedgerRows ==
    WellFormed(RowsOf(MidnightNaive, MidnightNaive \cup MidnightAware,
                      Amounts))

\* Amounts at the literal 83171.71 of line 287, in hundredths: one
\* hundredth, which 83171.70 lacks; the threshold; the whole number above
\* it; a whole number that is more than twice the threshold away from it.
CapHundredths == {0, 1, 8317170, 8317171, 8317200, 21424400}
CapAmounts == {FloatOfHundredths(n) : n \in CapHundredths}
\* The well-formed rows that carry them.  The text of a tz-aware due date
\* is its str(), or a date text of its day, or a text that nothing reads.
CapRows ==
    LET rows == WellFormed(RowsOf(MidnightNaive,
                    MidnightNaive \cup MidnightAware, CapAmounts))
        aware_due == {r \in rows :
                         r.Credit # Zero /\ r.Due_Date.kind = "aware"}
    IN rows
       \cup {[r EXCEPT !.Original_Due_Date_Str = Unreadable] : r \in aware_due}
       \cup {[r EXCEPT !.Original_Due_Date_Str = DateText(r.Due_Date)] :
                r \in aware_due}

\* The lists of at most n rows of S.
SeqsUpTo(S, n) == UNION {[1..k -> S] : k \in 0..n}

VARIABLES
    transactions,           \* the argument of calculate_balances
    pc,                     \* position in calculate_balances
    target_date,            \* line 179
    credits, debits,        \* lines 184-209; debits carry 'remaining'
    total_credits, total_debits,
    ci,                     \* index of the credit of `for credit in credits`
    di,                     \* index of the debit of the running `for debit in debits`
    remaining_principal,    \* line 221
    matched_debits,         \* line 222
    unpaid_at_due,          \* line 236
    balance, current_date, interest,     \* lines 251-253
    overdue_with_interest, pending_credits,
    total_principal, total_interest,
    gst, total_amount_due,
    ledger                  \* history: every allocation recorded, of all credits

vars == <<transactions, pc, target_date, credits, debits, total_credits,
          total_debits, ci, di, remaining_principal, matched_debits,
          unpaid_at_due, balance, current_date, interest,
          overdue_with_interest, pending_credits, total_principal,
          total_interest, gst, total_amount_due, ledger>>

\* ---------------------------------------------------------------- helpers
RECURSIVE SumFrom(_, _, _)
\* the running total of sum() and of `total += x`: the items are added one
\* after the other, each sum rounded.  (From Python 3.12 on sum() keeps a
\* correction term; on a list of at most two floats the result is the same.)
SumFrom(total, s, f) ==
    IF s = <<>> THEN total
    ELSE With(FAdd(total, Head(s)[f]), LAMBDA t : SumFrom(t, Tail(s), f))

\* sum(x[f] for x in s)
SumField(s, f) == SumFrom(Zero, s, f)

\* a > b of two datetimes (lines 177, 239, 255): ordering a naive against an
\* aware datetime raises TypeError.
DateGreater(a, b) ==
    IF a.kind # b.kind
    THEN [raised |-> TRUE, value |-> FALSE]
    ELSE [raised |-> FALSE, value |-> a.t > b.t]

\* a <= b of two datetimes (line 225)
DateLessEq(a, b) ==
    IF a.kind # b.kind
    THEN [raised |-> TRUE, value |-> FALSE]
    ELSE [raised |-> FALSE, value |-> a.t <= b.t]

RECURSIVE MaxFrom(_, _)
\* max(...) of line 177 from the running maximum m on: each further Date is
\* compared with it.
MaxFrom(m, rows) ==
    IF rows = <<>> THEN [raised |-> FALSE, value |-> m]
    ELSE LET gt == DateGreater(Head(rows).Date, m)
         IN IF gt.raised THEN [raised |-> TRUE, value |-> m]
            ELSE MaxFrom(IF gt.value THEN Head(rows).Date ELSE m, Tail(rows))

\* max(t['Date'] for t in transactions), line 177 (transactions is not empty)
MaxDate(s) == MaxFrom(Head(s).Date, Tail(s))

\* last_date.replace(hour=16, minute=28, second=0, microsecond=0), line 179
AtTargetTime(dt) ==
    [dt EXCEPT !.t = (dt.t \div MinutesPerDay) * MinutesPerDay + TargetMinute]

\* ist.localize(dt), line 179: ValueError when dt has a tzinfo already
Localize(dt) ==
    IF dt.kind = "aware"
    THEN [raised |-> TRUE, value |-> dt]
    ELSE [raised |-> FALSE, value |-> [dt EXCEPT !.kind = "aware"]]

\* days_between (lines 98-101): 0 when a date is None, else
\* max((date2 - date1).days, 0), .days being the whole days of the
\* difference, rounded down.  The subtraction of a naive and an aware
\* datetime raises TypeError.
days_between(date1_obj, date2_obj) ==
    IF date1_obj.kind = "none" \/ date2_obj.kind = "none"
    THEN [raised |-> FALSE, days |-> 0]
    ELSE IF date1_obj.kind # date2_obj.kind
    THEN [raised |-> TRUE, days |-> 0]
    ELSE [raised |-> FALSE,
          days |-> Max((date2_obj.t - date1_obj.t) \div MinutesPerDay, 0)]

\* parse_date_to_datetime (lines 78-95): a datetime comes back as it is
\* (line 81); a serial number and a text that a format of line 85 reads give
\* the naive midnight of their day (lines 83, 87); the str() of a datetime
\* gives, by pd.to_datetime, that datetime (lines 90-92); anything else gives
\* None (lines 93, 95).
parse_date_to_datetime(date_val) ==
    CASE date_val.form = "datetime" -> date_val.value
      [] date_val.form \in {"serial", "date"} ->
             Naive(date_val.value.t \div MinutesPerDay, 0)
      [] date_val.form = "timestamp" -> date_val.value
      [] OTHER -> None

RECURSIVE InsertByDate(_, _)
\* x goes behind every entry whose date is not later: list.sort is stable.
InsertByDate(x, s) ==
    IF s = <<>> THEN <<x>>
    ELSE IF Head(s).date.t <= x.date.t
         THEN <<Head(s)>> \o InsertByDate(x, Tail(s))
    ELSE <<x>> \o s

RECURSIVE SortByDate(_)
\* credits.sort(key=lambda x: x['date']), lines 208-209
SortByDate(s) ==
    IF s = <<>> THEN <<>>
    ELSE InsertByDate(s[Len(s)], SortByDate(SubSeq(s, 1, Len(s) - 1)))

RECURSIVE CreditsOf(_)
\* lines 189-198: the rows with Credit > 0, in input order
CreditsOf(rows) ==
    IF rows = <<>> THEN <<>>
    ELSE LET row == Head(rows)
         IN (IF Positive(row.Credit)
             THEN <<[date |-> row.Date, amount |-> row.Credit,
                     due_date |-> row.Due_Date,
                     original_due_date |-> row.Original_Due_Date_Str]>>
             ELSE <<>>) \o CreditsOf(Tail(rows))

RECURSIVE DebitsOf(_)
\* lines 199-206: the rows with Debit > 0, in input order
DebitsOf(rows) ==
    IF rows = <<>> THEN <<>>
    ELSE LET row == Head(rows)
         IN (IF Positive(row.Debit)
             THEN <<[date |-> row.Date, amount |-> row.Debit,
                     remaining |-> row.Debit]>>
             ELSE <<>>) \o DebitsOf(Tail(rows))

\* ------------------------------------------------------------------- Init
InitWith(inputs) ==
    /\ transactions \in inputs
    /\ pc = "start"
    /\ target_date = None
    /\ credits = <<>>
    /\ debits = <<>>
    /\ total_credits = Zero
    /\ total_debits = Zero
    /\ ci = 0
    /\ di = 0
    /\ remaining_principal = Zero
    /\ matched_debits = <<>>
    /\ unpaid_at_due = Zero
    /\ balance = Zero
    /\ current_date = None
    /\ interest = Zero
    /\ overdue_with_interest = <<>>
    /\ pending_credits = <<>>
    /\ total_principal = Zero
    /\ total_interest = Zero
    /\ gst = Zero
    /\ total_amount_due = Zero
    /\ ledger = <<>>

\* Well-formed ledgers, and every list of rows the engine tolerates.
Init == InitWith(SeqsUpTo(LedgerRows, MaxRows))
InitTolerated == InitWith(SeqsUpTo(Rows, MaxToleratedRows))
\* Well-formed ledgers whose amounts reach the principal threshold.
InitCap == InitWith(SeqsUpTo(CapRows, MaxCapRows))

\* ------------------------------------------------- lines 173-174: no rows
\* `if not transactions: return [], [], 0, 0, 0, 0, 0, 0`: a result of empty
\* lists and zero totals (without the target date), no exception.
ReturnEmpty ==
    /\ pc = "start"
    /\ transactions = <<>>
    /\ pc' = "done"
    /\ UNCHANGED <<transactions, target_date, credits, debits, total_credits,
                   total_debits, ci, di, remaining_principal, matched_debits,
                   unpaid_at_due, balance, current_date, interest,
                   overdue_with_interest, pending_credits, total_principal,
                   total_interest, gst, total_amount_due, ledger>>

\* ------------------------------- lines 177-215: target date, partition, sort
\* max raises TypeError over naive and aware dates (line 177), localize
\* raises ValueError on an aware last date (line 179).
Partition ==
    /\ pc = "start"
    /\ transactions # <<>>
    /\ LET last_date == MaxDate(transactions)
           localized == Localize(AtTargetTime(last_date.value))
       IN IF last_date.raised \/ localized.raised
          THEN /\ pc' = IF last_date.raised THEN "TypeError"
                                            ELSE "ValueError"
               /\ UNCHANGED <<target_date, credits, debits, total_credits,
                              total_debits, ci>>
          ELSE /\ target_date' = localized.value
               /\ credits' = SortByDate(CreditsOf(transactions))
               /\ debits' = SortByDate(DebitsOf(transactions))
               /\ total_credits' = SumField(CreditsOf(transactions), "amount")
               /\ total_debits' = SumField(DebitsOf(transactions), "amount")
               /\ ci' = 1
               /\ pc' = "credit"
    /\ UNCHANGED <<transactions, di, remaining_principal, matched_debits,
                   unpaid_at_due, balance, current_date, interest,
                   overdue_with_interest, pending_credits, total_principal,
                   total_interest, gst, total_amount_due, ledger>>

\* ------------------------------ lines 217-222: `for credit in credits`, head
BeginCredit ==
    /\ pc = "credit"
    /\ ci <= Len(credits)
    /\ remaining_principal' = credits[ci].amount
    /\ matched_debits' = <<>>
    /\ di' = 1
    /\ pc' = "ontime"
    /\ UNCHANGED <<transactions, target_date, credits, debits, total_credits,
                   total_debits, ci, unpaid_at_due, balance, current_date,
                   interest, overdue_with_interest, pending_credits,
                   total_principal, total_interest, gst, total_amount_due,
                   ledger>>

CreditsExhausted ==
    /\ pc = "credit"
    /\ ci > Len(credits)
    /\ pc' = "return"
    /\ UNCHANGED <<transactions, target_date, credits, debits, total_credits,
                   total_debits, ci, di, remaining_principal, matched_debits,
                   unpaid_at_due, balance, current_date, interest,
                   overdue_with_interest, pending_credits, total_principal,
                   total_interest, gst, total_amount_due, ledger>>

\* ------------------------------------------- lines 224-233: the on-time pass
\* line 225: `debit['remaining'] > 0 and credit_date <= debit['date'] <=
\* due_date`; an operand is evaluated only when those before it are true.
OnTimeEligible(credit, debit) ==
    LET first == DateLessEq(credit.date, debit.date)
        second == DateLessEq(debit.date, credit.due_date)
    IN IF ~Positive(debit.remaining) THEN [raised |-> FALSE, value |-> FALSE]
       ELSE IF first.raised \/ ~first.value THEN first
       ELSE second

\* line 226
OnTimeAlloc(principal, remaining) == FMin(principal, remaining)

OnTimeAllocate ==
    /\ pc = "ontime"
    /\ di <= Len(debits)
    /\ OnTimeEligible(credits[ci], debits[di]).value
    /\ \E alloc \in {OnTimeAlloc(remaining_principal, debits[di].remaining)} :
          /\ matched_debits' = Append(matched_debits,
                  [payment_date |-> debits[di].date, allocated |-> alloc,
                   debit |-> di])
          /\ ledger' = Append(ledger,
                  [credit |-> ci, debit |-> di, allocated |-> alloc,
                   payment_date |-> debits[di].date, late |-> FALSE,
                   days |-> 0])
          /\ debits' = [debits EXCEPT ![di].remaining = FSub(@, alloc)]
          /\ remaining_principal' = FSub(remaining_principal, alloc)
    /\ di' = di + 1
    /\ UNCHANGED <<transactions, pc, target_date, credits, total_credits,
                   total_debits, ci, unpaid_at_due, balance, current_date,
                   interest, overdue_with_interest, pending_credits,
                   total_principal, total_interest, gst, total_amount_due>>

OnTimeSkip ==
    /\ pc = "ontime"
    /\ di <= Len(debits)
    /\ ~OnTimeEligible(credits[ci], debits[di]).raised
    /\ ~OnTimeEligible(credits[ci], debits[di]).value
    /\ di' = di + 1
    /\ UNCHANGED <<transactions, pc, target_date, credits, debits,
                   total_credits, total_debits, ci, remaining_principal,
                   matched_debits, unpaid_at_due, balance, current_date,
                   interest, overdue_with_interest, pending_credits,
                   total_principal, total_interest, gst, total_amount_due,
                   ledger>>

\* line 225 compares a naive date with an aware due date: TypeError
OnTimeRaises ==
    /\ pc = "ontime"
    /\ di <= Len(debits)
    /\ OnTimeEligible(credits[ci], debits[di]).raised
    /\ pc' = "TypeError"
    /\ UNCHANGED <<transactions, target_date, credits, debits, total_credits,
                   total_debits, ci, di, remaining_principal, matched_debits,
                   unpaid_at_due, balance, current_date, interest,
                   overdue_with_interest, pending_credits, total_principal,
                   total_interest, gst, total_amount_due, ledger>>

\* ------------------------------------- lines 235-249: settled, or pending
\* line 236, with paid_by_due_date of line 235
UnpaidAtDue(credit, matched) ==
    FSub(credit.amount, SumField(matched, "allocated"))

\* lines 241-248
PendingEntry(c, credit, principal, days_remaining, matched) ==
    [credit |-> c, credit_amount |-> credit.amount,
     due_date |-> credit.original_due_date, unpaid_amount |-> principal,
     days_remaining |-> days_remaining, matched_debits |-> matched]

\* lines 238-249: unpaid_at_due <= 0.  `remaining_principal > 0 and
\* due_date > target_date` evaluates the comparison only when the first
\* operand is true.
Settled ==
    /\ pc = "ontime"
    /\ di > Len(debits)
    /\ \E unpaid \in {UnpaidAtDue(credits[ci], matched_debits)} :
          LET credit == credits[ci]
              later == DateGreater(credit.due_date, target_date)
          IN /\ NotPositive(unpaid)
             /\ unpaid_at_due' = unpaid
             /\ IF Positive(remaining_principal) /\ later.raised
                THEN /\ pc' = "TypeError"
                     /\ UNCHANGED <<ci, pending_credits>>
                ELSE /\ pc' = "credit"
                     /\ ci' = ci + 1
                     /\ pending_credits' =
                            IF Positive(remaining_principal) /\ later.value
                            THEN Append(pending_credits,
                                     PendingEntry(ci, credit,
                                         remaining_principal,
                                         days_between(target_date,
                                             credit.due_date).days,
                                         matched_debits))
                            ELSE pending_credits
    /\ UNCHANGED <<transactions, target_date, credits, debits, total_credits,
                   total_debits, di, remaining_principal, matched_debits,
                   balance, current_date, interest, overdue_with_interest,
                   total_principal, total_interest, gst, total_amount_due,
                   ledger>>

\* lines 251-253: unpaid_at_due > 0, the late pass begins
EnterLate ==
    /\ pc = "ontime"
    /\ di > Len(debits)
    /\ \E unpaid \in {UnpaidAtDue(credits[ci], matched_debits)} :
          /\ ~NotPositive(unpaid)
          /\ unpaid_at_due' = unpaid
          /\ balance' = unpaid
    /\ current_date' = credits[ci].due_date
    /\ interest' = Zero
    /\ di' = 1
    /\ pc' = "late"
    /\ UNCHANGED <<transactions, target_date, credits, debits, total_credits,
                   total_debits, ci, remaining_principal, matched_debits,
                   overdue_with_interest, pending_credits, total_principal,
                   total_interest, gst, total_amount_due, ledger>>

\* ---------------------------------------------- lines 254-268: the late pass
\* line 255: `debit['remaining'] > 0 and debit['date'] > due_date`
LateEligible(credit, debit) ==
    IF ~Positive(debit.remaining) THEN [raised |-> FALSE, value |-> FALSE]
    ELSE DateGreater(debit.date, credit.due_date)

\* line 258 without the min: the whole of what the debit has left is taken
LateAllocWhole(bal, remaining) == remaining

\* line 258
LateAlloc(bal, remaining) == FMin(bal, remaining)

\* balance * daily_rate * days of lines 257, 272 and 295, multiplied from
\* the left, each product rounded
Accrued(bal, days) == FMul(FMul(bal, DailyRate), FloatOfInt(days))

\* lines 256-257: interest of the segment current_date .. payment date
SegmentInterest(bal, from, to) == Accrued(bal, days_between(from, to).days)

LateAllocate ==
    /\ pc = "late"
    /\ di <= Len(debits)
    /\ LateEligible(credits[ci], debits[di]).value
    /\ ~days_between(current_date, debits[di].date).raised
    /\ \E alloc \in {LateAlloc(balance, debits[di].remaining)} :
       \E left \in {FSub(balance, alloc)} :
          /\ interest' = FAdd(interest,
                 SegmentInterest(balance, current_date, debits[di].date))
          /\ matched_debits' = Append(matched_debits,
                  [payment_date |-> debits[di].date, allocated |-> alloc,
                   debit |-> di])
          /\ ledger' = Append(ledger,
                  [credit |-> ci, debit |-> di, allocated |-> alloc,
                   payment_date |-> debits[di].date, late |-> TRUE,
                   days |-> days_between(current_date,
                                         debits[di].date).days])
          /\ debits' = [debits EXCEPT ![di].remaining = FSub(@, alloc)]
          /\ balance' = left
          /\ current_date' = debits[di].date
          /\ IF NotPositive(left)
             THEN pc' = "classify" /\ di' = di          \* break, line 268
             ELSE pc' = "late" /\ di' = di + 1
    /\ UNCHANGED <<transactions, target_date, credits, total_credits,
                   total_debits, ci, remaining_principal, unpaid_at_due,
                   overdue_with_interest, pending_credits, total_principal,
                   total_interest, gst, total_amount_due>>

LateSkip ==
    /\ pc = "late"
    /\ di <= Len(debits)
    /\ ~LateEligible(credits[ci], debits[di]).raised
    /\ ~LateEligible(credits[ci], debits[di]).value
    /\ di' = di + 1
    /\ UNCHANGED <<transactions, pc, target_date, credits, debits,
                   total_credits, total_debits, ci, remaining_principal,
                   matched_debits, unpaid_at_due, balance, current_date,
                   interest, overdue_with_interest, pending_credits,
                   total_principal, total_interest, gst, total_amount_due,
                   ledger>>

\* line 255 compares a naive date with an aware due date, or line 256
\* subtracts the two: TypeError
LateRaises ==
    /\ pc = "late"
    /\ di <= Len(debits)
    /\ \/ LateEligible(credits[ci], debits[di]).raised
       \/ /\ LateEligible(credits[ci], debits[di]).value
          /\ days_between(current_date, debits[di].date).raised
    /\ pc' = "TypeError"
    /\ UNCHANGED <<transactions, target_date, credits, debits, total_credits,
                   total_debits, ci, di, remaining_principal, matched_debits,
                   unpaid_at_due, balance, current_date, interest,
                   overdue_with_interest, pending_credits, total_principal,
                   total_interest, gst, total_amount_due, ledger>>

LateExhausted ==
    /\ pc = "late"
    /\ di > Len(debits)
    /\ pc' = "classify"
    /\ UNCHANGED <<transactions, target_date, credits, debits, total_credits,
                   total_debits, ci, di, remaining_principal, matched_debits,
                   unpaid_at_due, balance, current_date, interest,
                   overdue_with_interest, pending_credits, total_principal,
                   total_interest, gst, total_amount_due, ledger>>

\* --------------------- lines 270-298: final accrual, classification, the cap
\* lines 270-272: interest of the segment current_date .. target_date
FinalInterest(bal, intr, cur, target) ==
    IF Positive(bal)
    THEN FAdd(intr, Accrued(bal, days_between(cur, target).days))
    ELSE intr

\* lines 274-276: `if balance > 0: total += amount`
Accumulate(total, amount, bal) ==
    IF Positive(bal) THEN FAdd(total, amount) ELSE total

\* lines 277-285
OverdueEntry(c, credit, bal, intr, matched) ==
    [credit |-> c, credit_amount |-> credit.amount,
     due_date |-> credit.original_due_date, unpaid_amount |-> bal,
     interest |-> intr,
     total_with_interest |-> FAdd(bal, intr),
     matched_debits |-> matched]

\* lines 274, 277: `if balance > 0: overdue_with_interest.append(...)`
Report(list, entry, bal) ==
    IF Positive(bal) THEN Append(list, entry) ELSE list

\* lines 288-297, entered with total_principal >= 83171.71: the last overdue
\* entry gives up the smaller of the excess and its unpaid amount, and its
\* interest is computed again, from the date read from the text of its due
\* date to the target date.
CapAdjust(list, tp, ti, target) ==
    With(FSub(tp, PrincipalCap), LAMBDA excess :
        IF Positive(excess) /\ list # <<>>
        THEN LET n == Len(list)
                 reduction == FMin(excess, list[n].unpaid_amount)
                 unpaid == FSub(list[n].unpaid_amount, reduction)
                 d == days_between(parse_date_to_datetime(list[n].due_date),
                                   target)
                 intr == Accrued(unpaid, d.days)
                 adjusted == [list EXCEPT ![n].unpaid_amount = unpaid,
                                          ![n].interest = intr,
                                          ![n].total_with_interest =
                                              FAdd(unpaid, intr)]
             IN IF d.raised
                THEN [raised |-> TRUE,
                      list |-> [list EXCEPT ![n].unpaid_amount = unpaid],
                      tp |-> FSub(tp, reduction), ti |-> ti]
                ELSE [raised |-> FALSE, list |-> adjusted,
                      tp |-> FSub(tp, reduction),
                      ti |-> SumField(adjusted, "interest")]
        ELSE [raised |-> FALSE, list |-> list, tp |-> tp, ti |-> ti])

\* line 271 with balance > 0: target_date - current_date raises TypeError
\* when current_date is naive
AccrueRaises ==
    /\ pc = "classify"
    /\ Positive(balance)
    /\ days_between(current_date, target_date).raised
    /\ pc' = "TypeError"
    /\ UNCHANGED <<transactions, target_date, credits, debits, total_credits,
                   total_debits, ci, di, remaining_principal, matched_debits,
                   unpaid_at_due, balance, current_date, interest,
                   overdue_with_interest, pending_credits, total_principal,
                   total_interest, gst, total_amount_due, ledger>>

Classify ==
    /\ pc = "classify"
    /\ ~(Positive(balance) /\ days_between(current_date, target_date).raised)
    /\ \E intr \in {FinalInterest(balance, interest, current_date,
                                  target_date)} :
       \E tp \in {Accumulate(total_principal, balance, balance)} :
       \E ti \in {Accumulate(total_interest, intr, balance)} :
          LET list == Report(overdue_with_interest,
                          OverdueEntry(ci, credits[ci], balance, intr,
                                       matched_debits), balance)
          IN /\ interest' = intr
             /\ IF FLessEq(PrincipalCap, tp)               \* line 287
                THEN \E cap \in {CapAdjust(list, tp, ti, target_date)} :
                        /\ overdue_with_interest' = cap.list
                        /\ total_principal' = cap.tp
                        /\ total_interest' = cap.ti
                        /\ pc' = IF cap.raised THEN "TypeError" ELSE "return"
                        /\ ci' = ci
                ELSE /\ overdue_with_interest' = list
                     /\ total_principal' = tp
                     /\ total_interest' = ti
                     /\ pc' = "credit"
                     /\ ci' = ci + 1
    /\ UNCHANGED <<transactions, target_date, credits, debits, total_credits,
                   total_debits, di, remaining_principal, matched_debits,
                   unpaid_at_due, balance, current_date, pending_credits,
                   gst, total_amount_due, ledger>>

\* ------------------------------------------------ lines 300-303: the result
\* line 300: 0.18 * total_interest
Gst(ti) == FMul(GstRate, ti)

\* line 301: the sum is taken from the left
TotalAmountDue(tp, ti, g) == FAdd(FAdd(tp, ti), g)

Return ==
    /\ pc = "return"
    /\ \E g \in {Gst(total_interest)} :
          /\ gst' = g
          /\ total_amount_due' = TotalAmountDue(total_principal,
                                                total_interest, g)
    /\ pc' = "done"
    /\ UNCHANGED <<transactions, target_date, credits, debits, total_credits,
                   total_debits, ci, di, remaining_principal, matched_debits,
                   unpaid_at_due, balance, current_date, interest,
                   overdue_with_interest, pending_credits, total_principal,
                   total_interest, ledger>>

Next ==
    \/ ReturnEmpty
    \/ Partition
    \/ BeginCredit
    \/ CreditsExhausted
    \/ OnTimeAllocate
    \/ OnTimeSkip
    \/ OnTimeRaises
    \/ Settled
    \/ EnterLate
    \/ LateAllocate
    \/ LateSkip
    \/ LateRaises
    \/ LateExhausted
    \/ AccrueRaises
    \/ Classify
    \/ Return

Spec == Init /\ [][Next]_vars
SpecTolerated == InitTolerated /\ [][Next]_vars
SpecCap == InitCap /\ [][Next]_vars

\* ================================================================= claims
\* The sums and differences of the claims are those of the program: the
\* items of a sum are added in the order of the list, as sum() adds them,
\* and each result is the nearest float.
Finished == pc = "done"
Raised == pc \in {"TypeError", "ValueError"}
Ended == Finished \/ Raised

\* what the allocations of l took from debit d
AllocatedFromIn(l, d) ==
    SumField(SelectSeq(l, LAMBDA a : a.debit = d), "allocated")

\* what the allocations of l paid of credit c
AllocatedToIn(l, c) ==
    SumField(SelectSeq(l, LAMBDA a : a.credit = c), "allocated")

AllocatedFrom(d) == AllocatedFromIn(ledger, d)
AllocatedTo(c) == AllocatedToIn(ledger, c)
Unallocated == SumField(debits, "remaining")
ReportedUnpaid ==
    FAdd(SumField(overdue_with_interest, "unpaid_amount"),
         SumField(pending_credits, "unpaid_amount"))

\* C1, debit non-reuse: at every point of a run, what all allocations (on-time
\* and late, of all credits) took from a debit is at most the debit's amount,
\* remaining = amount - (sum allocated from it), 0 <= remaining <= amount,
\* and no step increases the remaining of a debit.
C1_DebitNonReuse ==
    /\ [](\A d \in DOMAIN debits :
             /\ FLessEq(AllocatedFrom(d), debits[d].amount)
             /\ debits[d].remaining = FSub(debits[d].amount, AllocatedFrom(d))
             /\ FLessEq(Zero, debits[d].remaining)
             /\ FLessEq(debits[d].remaining, debits[d].amount))
    /\ [][\A d \in DOMAIN debits :
             FLessEq(debits'[d].remaining, debits[d].remaining)]_vars

\* C2, conservation: in the result of a run, total_credits is the sum of the
\* allocated amounts plus the unpaid amounts of the overdue and pending
\* lists, and total_credits - total_debits is the reported unpaid amount
\* minus the debit capacity left unallocated.
C2_Conservation ==
    Finished =>
        /\ total_credits = FAdd(SumField(ledger, "allocated"), ReportedUnpaid)
        /\ FSub(total_credits, total_debits) =
               FSub(ReportedUnpaid, Unallocated)

\* The credits whose iteration of `for credit in credits` has been entered.
Entered == {c \in DOMAIN credits : c <= ci}

\* What is left of credit c after every allocation recorded for it.
Outstanding(c) == FSub(credits[c].amount, AllocatedTo(c))

InOverdue(c) ==
    \E i \in DOMAIN overdue_with_interest : overdue_with_interest[i].credit = c

\* The whole days from datetime a to datetime b, not below 0.
WholeDays(a, b) == Max((b.t - a.t) \div MinutesPerDay, 0)

\* C3, pending classification: when the run has ended, a credit that has been
\* handled, whose due date lies after the reference date and of which a
\* positive amount is unpaid, is in the pending list with that amount and
\* with days_remaining = the whole days from the reference date to the due
\* date, and not in the overdue list.
C3_PendingClassified ==
    Ended =>
        \A c \in Entered :
            (credits[c].due_date.t > target_date.t
             /\ Positive(Outstanding(c))) =>
                /\ \E i \in DOMAIN pending_credits :
                       /\ pending_credits[i].credit = c
                       /\ pending_credits[i].unpaid_amount = Outstanding(c)
                       /\ pending_credits[i].days_remaining =
                              WholeDays(target_date, credits[c].due_date)
                /\ ~InOverdue(c)

\* C4, overdue classification: in the result of a run, a credit that was
\* unpaid at its due date and on which interest accrued (a late allocation
\* closed a segment of at least one day on a positive balance) has an entry
\* in the overdue list with the interest, counted in total_interest.
C4_SettledLateIsOverdue ==
    Finished =>
        \A c \in DOMAIN credits :
            (\E i \in DOMAIN ledger :
                 /\ ledger[i].credit = c
                 /\ ledger[i].late
                 /\ ledger[i].days > 0) =>
                \E j \in DOMAIN overdue_with_interest :
                    /\ overdue_with_interest[j].credit = c
                    /\ Positive(overdue_with_interest[j].interest)
                    /\ FLessEq(overdue_with_interest[j].interest,
                               total_interest)

\* The allocations of credit c of the on-time and of the late pass, in the
\* order in which they were recorded.
OnTimeAllocations(c) ==
    SelectSeq(ledger, LAMBDA a : a.credit = c /\ ~a.late)
LateAllocations(c) ==
    SelectSeq(ledger, LAMBDA a : a.credit = c /\ a.late)

RECURSIVE BalanceAfter(_, _)
\* the balance bal less the allocations, one after the other
BalanceAfter(bal, allocations) ==
    IF allocations = <<>> THEN bal
    ELSE With(FSub(bal, Head(allocations).allocated),
              LAMBDA b : BalanceAfter(b, Tail(allocations)))

RECURSIVE AccrualFormula(_, _, _, _, _)
\* total plus the sum over the segments [cursor, p1], [p1, p2], ...,
\* [pk, reference] of (balance at the start of the segment) x DailyRate x
\* (whole days, not below 0).
AccrualFormula(total, bal, cursor, allocations, reference) ==
    IF allocations = <<>>
    THEN FAdd(total, Accrued(bal, WholeDays(cursor, reference)))
    ELSE With(FAdd(total, Accrued(bal,
                   WholeDays(cursor, Head(allocations).payment_date))),
              LAMBDA t :
                 AccrualFormula(t, FSub(bal, Head(allocations).allocated),
                                Head(allocations).payment_date,
                                Tail(allocations), reference))

\* C5, accrual formula: in the result of a run, every entry of the overdue
\* list reports, of its credit, unpaid amount = unpaid-at-due minus the late
\* allocations, interest = the sum over the segments due date .. payment
\* dates of the late allocations .. reference date of (balance at the start
\* of the segment) x daily rate x (whole days, not below 0), and
\* total_with_interest = unpaid amount + interest.
C5_AccrualReported ==
    Finished =>
        \A i \in DOMAIN overdue_with_interest :
            LET e == overdue_with_interest[i]
                c == e.credit
                unpaid_due == FSub(credits[c].amount,
                                   SumField(OnTimeAllocations(c), "allocated"))
                late == LateAllocations(c)
            IN /\ e.unpaid_amount = BalanceAfter(unpaid_due, late)
               /\ e.interest = AccrualFormula(Zero, unpaid_due,
                                    credits[c].due_date, late, target_date)
               /\ e.total_with_interest = FAdd(e.unpaid_amount, e.interest)

\* C6, totals consistency: in the result of a run, total_principal and
\* total_interest are the sums of unpaid_amount and of interest over the
\* overdue list, every entry has total_with_interest = unpaid_amount +
\* interest, gst = 0.18 x total_interest and total_amount_due =
\* total_principal + total_interest + gst.
C6_TotalsConsistent ==
    Finished =>
        /\ total_principal = SumField(overdue_with_interest, "unpaid_amount")
        /\ total_interest = SumField(overdue_with_interest, "interest")
        /\ \A i \in DOMAIN overdue_with_interest :
               overdue_with_interest[i].total_with_interest =
                   FAdd(overdue_with_interest[i].unpaid_amount,
                        overdue_with_interest[i].interest)
        /\ gst = FMul(GstRate, total_interest)
        /\ total_amount_due =
               FAdd(FAdd(total_principal, total_interest), gst)

\* C7, matching window: every allocation recorded, on time or late, pairs a
\* credit with a debit dated on or after the credit's date.
C7_MatchingWindow ==
    \A i \in DOMAIN ledger :
        ledger[i].payment_date.t >= credits[ledger[i].credit].date.t

\* C8, monotonic balance: the late pass starts with balance = unpaid-at-due;
\* while it runs the balance is positive, and when it is over the balance is
\* not negative; no step of the pass increases the balance, and a late
\* allocation takes at most the balance.
C8_MonotonicBalance ==
    /\ [](pc = "late" =>
              Positive(balance) /\ FLessEq(balance, unpaid_at_due))
    /\ [](pc = "classify" =>
              FLessEq(Zero, balance) /\ FLessEq(balance, unpaid_at_due))
    /\ [][(pc = "ontime" /\ pc' = "late") =>
              (balance' = unpaid_at_due' /\ Positive(balance'))]_vars
    /\ [][pc = "late" =>
              /\ FLessEq(balance', balance)
              /\ FLessEq(Zero, balance')
              /\ Len(ledger') > Len(ledger) =>
                     /\ FLessEq(ledger'[Len(ledger')].allocated, balance)
                     /\ balance' =
                            FSub(balance, ledger'[Len(ledger')].allocated)]_vars

\* The late pass goes on after an allocation that left a part of the balance.
C8_Witness ==
    /\ pc = "late"
    /\ Positive(balance)
    /\ FLess(balance, unpaid_at_due)

\* C9, no transactions: the run does not return a result.
C9_EmptyInputFails == transactions = <<>> => ~Finished

\* C10, on-time stop rule: every allocation recorded by the on-time pass has
\* a positive allocated amount.
C10_PositiveAllocations ==
    \A i \in DOMAIN ledger : ~ledger[i].late => Positive(ledger[i].allocated)

\* total_principal of line 275, as the iteration of the credit at hand leaves
\* it before line 287.
RunningPrincipal == Accumulate(total_principal, balance, balance)

\* C11, principal cap: the result of a run has total_principal at most the
\* threshold 83171.71; the loop over the credits goes on only below the
\* threshold; the iteration whose running total_principal reaches the
\* threshold, unless it raises, ends the loop with total_principal equal to
\* the threshold, the excess taken from the unpaid amount of the last overdue
\* entry and from no other.
C11_PrincipalCapped ==
    /\ [](Finished => FLessEq(total_principal, PrincipalCap))
    /\ [](pc \in {"credit", "ontime", "late", "classify"} =>
              FLess(total_principal, PrincipalCap))
    /\ [][(pc = "classify" /\ FLessEq(PrincipalCap, RunningPrincipal)
              /\ pc' # "TypeError") =>
              LET n == Len(overdue_with_interest')
              IN /\ pc' = "return"
                 /\ total_principal' = PrincipalCap
                 /\ n = Len(overdue_with_interest) + 1
                 /\ overdue_with_interest'[n].unpaid_amount =
                        FSub(balance, FSub(RunningPrincipal, PrincipalCap))
                 /\ \A i \in DOMAIN overdue_with_interest :
                        overdue_with_interest'[i] = overdue_with_interest[i]]_vars
    /\ [][(pc = "return" /\ pc' = "done") =>
              UNCHANGED <<total_principal, overdue_with_interest>>]_vars
====
